---- MODULE Spec2Model ----
(***************************************************************************)
(* Model of scripts/crop_assets.py: crop_transparent (decode, bounding     *)
(* box, padded and clamped rectangle, crop, save) and main (the loop over  *)
(* the configured files).                                                  *)
(*                                                                         *)
(* An image is its size and the set of its non-transparent pixels; the     *)
(* file system maps each path to a missing file, an undecodable file or an *)
(* image.  Three specifications share the variables:                       *)
(*   SpecRect  the rectangle computation alone, on arbitrary well-formed   *)
(*             (size, bounding box, padding) inputs;                       *)
(*   SpecCrop  direct calls crop_transparent(input, output, padding);      *)
(*   Spec      runs of main (padding 2, output path = input path).         *)
(***************************************************************************)
EXTENDS Integers, Sequences, FiniteSets

VARIABLES fs, pc, i, out, io, call, prov, runs

vars == <<fs, pc, i, out, io, call, prov, runs>>

-----------------------------------------------------------------------------
(* Bounds of the model *)

MaxDim == 3      \* largest width and height of an image file under SpecCrop
MaxPad == 1      \* largest padding of a direct call under SpecCrop
MaxCalls == 2    \* direct calls of crop_transparent in one behaviour
MaxSmall == 3    \* small coordinates of the inputs under SpecRect
MaxRuns == 2     \* runs of main in one behaviour
MainW == 5       \* width of the image files under Spec

(* Program constants *)

NFiles == 4      \* length of files_to_crop
MainPadding == 2 \* padding=2 in main's call

Paths == 1..NFiles
NoPath == 0      \* output_path=None
NoBox == <<>>    \* getbbox() returning None
NoRect == <<>>   \* the rectangle not computed

-----------------------------------------------------------------------------
(* Python's max and min on two integers *)

max(a, b) == IF a >= b THEN a ELSE b

min(a, b) == IF a <= b THEN a ELSE b

(* Files and images *)

Missing == [kind |-> "missing", w |-> 0, h |-> 0, px |-> {}]

Corrupt == [kind |-> "corrupt", w |-> 0, h |-> 0, px |-> {}]

Img(w, h, px) == [kind |-> "image", w |-> w, h |-> h, px |-> px]

Grid(w, h) == (0..(w - 1)) \X (0..(h - 1))

\* subsets of S with at most two elements
UpTo2(S) == {{}} \cup {{a, b} : a \in S, b \in S}

\* every image of the given widths and heights with at most two opaque pixels
Images(ws, hs) ==
  UNION {{Img(w, h, px) : px \in UpTo2(Grid(w, h))} : w \in ws, h \in hs}

SetMin(S) == CHOOSE x \in S : \A y \in S : x <= y

SetMax(S) == CHOOSE x \in S : \A y \in S : x >= y

\* os.path.exists
exists(f) == f.kind # "missing"

\* Image.open(input_path).convert("RGBA") succeeds
decodes(f) == f.kind = "image"

\* img.getbbox(): the bounding box of the non-transparent pixels, right and
\* bottom exclusive, or None when there is none
getbbox(img) ==
  IF img.px = {} THEN NoBox
  ELSE <<SetMin({p[1] : p \in img.px}), SetMin({p[2] : p \in img.px}),
         SetMax({p[1] : p \in img.px}) + 1, SetMax({p[2] : p \in img.px}) + 1>>

\* Rect without the clamp at 0
RectNoLowerClamp(W, H, bbox, P) ==
  <<bbox[1] - P, bbox[2] - P, min(W, bbox[3] + P), min(H, bbox[4] + P)>>

\* Rect with top taken from the box's left
RectTopFromLeft(W, H, bbox, P) ==
  <<max(0, bbox[1] - P), max(0, bbox[1] - P),
    min(W, bbox[3] + P), min(H, bbox[4] + P)>>

\* Rect with a padding of at least one pixel
RectAlwaysPads(W, H, bbox, P) ==
  <<max(0, bbox[1] - max(P, 1)), max(0, bbox[2] - max(P, 1)),
    min(W, bbox[3] + max(P, 1)), min(H, bbox[4] + max(P, 1))>>

\* Rect with the right and bottom clamps turned around
RectMaxForMin(W, H, bbox, P) ==
  <<max(0, bbox[1] - P), max(0, bbox[2] - P),
    max(W, bbox[3] + P), max(H, bbox[4] + P)>>

\* left, top, right, bottom of crop_transparent
Rect(W, H, bbox, P) ==
  <<max(0, bbox[1] - P), max(0, bbox[2] - P),
    min(W, bbox[3] + P), min(H, bbox[4] + P)>>

\* crop leaving the pixels at their old coordinates
cropKeepsCoords(img, r) ==
  Img(r[3] - r[1], r[4] - r[2],
      {q \in img.px : /\ r[1] <= q[1] /\ q[1] < r[3]
                      /\ r[2] <= q[2] /\ q[2] < r[4]})

\* crop taking right and bottom as inclusive
cropInclusive(img, r) ==
  Img(r[3] - r[1] + 1, r[4] - r[2] + 1,
      {<<p[1] - r[1], p[2] - r[2]>> :
         p \in {q \in img.px : /\ r[1] <= q[1] /\ q[1] <= r[3]
                               /\ r[2] <= q[2] /\ q[2] <= r[4]}})

\* img.crop((left, top, right, bottom)): the pixels of the rectangle, moved to
\* the origin
crop(img, r) ==
  Img(r[3] - r[1], r[4] - r[2],
      {<<p[1] - r[1], p[2] - r[2]>> :
         p \in {q \in img.px : /\ r[1] <= q[1] /\ q[1] < r[3]
                               /\ r[2] <= q[2] /\ q[2] < r[4]}})

\* output_path defaulting to the first configured file
OutputPathFirst(inp, outp) == IF outp = NoPath THEN 1 ELSE outp

\* output_path defaults to input_path
OutputPath(inp, outp) == IF outp = NoPath THEN inp ELSE outp

NoCall ==
  [n |-> 0, inp |-> NoPath, outp |-> NoPath, pad |-> 0, w |-> 0, h |-> 0,
   bbox |-> NoBox, rect |-> NoRect]

-----------------------------------------------------------------------------
(* SpecRect: the rectangle computation on well-formed inputs *)

Coords == (0..MaxSmall) \cup {10, 40, 50, 90, 100}

Sizes == (0..MaxSmall) \cup {50, 100}

Pads == (0..MaxSmall) \cup {200}

WellFormed(W, H, bb, P) ==
  /\ 0 <= bb[1] /\ bb[1] <= bb[3] /\ bb[3] <= W
  /\ 0 <= bb[2] /\ bb[2] <= bb[4] /\ bb[4] <= H
  /\ P >= 0

InitRect ==
  /\ fs = [p \in Paths |-> Missing]
  /\ pc = "rect"
  /\ i = 0
  /\ out = <<>>
  /\ io = <<>>
  /\ prov = [p \in Paths |-> -1]
  /\ runs = 0
  /\ \E W \in Sizes, H \in Sizes, P \in Pads :
       \E x0 \in Coords, y0 \in Coords, x1 \in Coords, y1 \in Coords :
         /\ WellFormed(W, H, <<x0, y0, x1, y1>>, P)
         /\ call = [NoCall EXCEPT !.pad = P, !.w = W, !.h = H,
                                  !.bbox = <<x0, y0, x1, y1>>]

ComputeRect ==
  /\ pc = "rect"
  /\ call.n = 0
  /\ call' = [call EXCEPT !.n = 1,
                          !.rect = Rect(call.w, call.h, call.bbox, call.pad)]
  /\ UNCHANGED <<fs, pc, i, out, io, prov, runs>>

NextRect == ComputeRect

SpecRect == InitRect /\ [][NextRect]_vars

-----------------------------------------------------------------------------
(* crop_transparent(inp, outp, padding = P), one action per way through it. *)
(* io0 is the record of file operations up to the call.                     *)

\* Image.open(...).convert("RGBA") raises: nothing else happens
CropDecodeFail(inp, outp, P, io0) ==
  /\ ~decodes(fs[inp])
  /\ io' = Append(io0, <<"open", inp>>)
  /\ call' = [NoCall EXCEPT !.n = call.n + 1, !.inp = inp,
                            !.outp = OutputPath(inp, outp), !.pad = P]
  /\ UNCHANGED <<fs, out, prov>>

\* the transparent image saved uncropped instead of skipped
CropSkipSaves(inp, outp, P, io0) ==
  /\ decodes(fs[inp])
  /\ getbbox(fs[inp]) = NoBox
  /\ fs' = [fs EXCEPT ![OutputPath(inp, outp)] = fs[inp]]
  /\ io' = io0 \o <<(<<"open", inp>>), (<<"save", OutputPath(inp, outp)>>)>>
  /\ out' = Append(out, <<"transparent", inp>>)
  /\ call' = [NoCall EXCEPT !.n = call.n + 1, !.inp = inp,
                            !.outp = OutputPath(inp, outp), !.pad = P]
  /\ UNCHANGED prov

\* bbox is None: the message, and return
CropSkip(inp, outp, P, io0) ==
  /\ decodes(fs[inp])
  /\ getbbox(fs[inp]) = NoBox
  /\ io' = Append(io0, <<"open", inp>>)
  /\ out' = Append(out, <<"transparent", inp>>)
  /\ call' = [NoCall EXCEPT !.n = call.n + 1, !.inp = inp,
                            !.outp = OutputPath(inp, outp), !.pad = P]
  /\ UNCHANGED <<fs, prov>>

\* the rectangle, the crop, the save and the size message
CropSave(inp, outp, P, io0) ==
  /\ decodes(fs[inp])
  /\ getbbox(fs[inp]) # NoBox
  /\ LET img == fs[inp]
         bbox == getbbox(img)
         r == Rect(img.w, img.h, bbox, P)
         cropped == crop(img, r)
         o == OutputPath(inp, outp)
     IN /\ fs' = [fs EXCEPT ![o] = cropped]
        /\ prov' = [prov EXCEPT ![o] = P]
        /\ io' = io0 \o <<(<<"open", inp>>), (<<"save", o>>)>>
        /\ out' = Append(out, <<"cropped", inp, img.w, img.h, cropped.w, cropped.h>>)
        /\ call' = [n |-> call.n + 1, inp |-> inp, outp |-> o, pad |-> P,
                    w |-> img.w, h |-> img.h, bbox |-> bbox, rect |-> r]

\* cropped.save(output_path) raises: the file at the output path is either
\* untouched (it could not be opened for writing) or left partly written
CropEncodeFail(inp, outp, P, io0, partial) ==
  /\ decodes(fs[inp])
  /\ getbbox(fs[inp]) # NoBox
  /\ LET img == fs[inp]
         bbox == getbbox(img)
         r == Rect(img.w, img.h, bbox, P)
         o == OutputPath(inp, outp)
     IN /\ fs' = IF partial THEN [fs EXCEPT ![o] = Corrupt] ELSE fs
        /\ prov' = IF partial THEN [prov EXCEPT ![o] = -1] ELSE prov
        /\ io' = io0 \o <<(<<"open", inp>>), (<<"save", o>>)>>
        /\ out' = out
        /\ call' = [n |-> call.n + 1, inp |-> inp, outp |-> o, pad |-> P,
                    w |-> img.w, h |-> img.h, bbox |-> bbox, rect |-> r]

-----------------------------------------------------------------------------
(* SpecCrop: a caller invoking crop_transparent directly *)

CallInputs == 1..2

CallOutputs == {NoPath, 2}

CallPads == 0..MaxPad

InitCrop ==
  /\ \E f \in Images(1..MaxDim, 1..MaxDim) \cup {Corrupt} :
       \E g \in {Missing, Img(1, 1, {<<0, 0>>})} :
         fs = [p \in Paths |-> IF p = 1 THEN f ELSE IF p = 2 THEN g ELSE Missing]
  /\ pc = "caller"
  /\ i = 0
  /\ out = <<>>
  /\ io = <<>>
  /\ call = NoCall
  /\ prov = [p \in Paths |-> -1]
  /\ runs = 0

CallDecodeFail ==
  /\ pc = "caller" /\ runs < MaxCalls
  /\ \E inp \in CallInputs, outp \in CallOutputs, P \in CallPads :
       CropDecodeFail(inp, outp, P, io)
  /\ pc' = "crashed"
  /\ runs' = runs + 1
  /\ UNCHANGED i

CallSkip ==
  /\ pc = "caller" /\ runs < MaxCalls
  /\ \E inp \in CallInputs, outp \in CallOutputs, P \in CallPads :
       CropSkip(inp, outp, P, io)
  /\ runs' = runs + 1
  /\ UNCHANGED <<pc, i>>

CallSave ==
  /\ pc = "caller" /\ runs < MaxCalls
  /\ \E inp \in CallInputs, outp \in CallOutputs, P \in CallPads :
       CropSave(inp, outp, P, io)
  /\ runs' = runs + 1
  /\ UNCHANGED <<pc, i>>

CallEncodeFail ==
  /\ pc = "caller" /\ runs < MaxCalls
  /\ \E inp \in CallInputs, outp \in CallOutputs, P \in CallPads :
       \E partial \in BOOLEAN : CropEncodeFail(inp, outp, P, io, partial)
  /\ pc' = "crashed"
  /\ runs' = runs + 1
  /\ UNCHANGED i

NextCrop == CallDecodeFail \/ CallSkip \/ CallSave \/ CallEncodeFail

SpecCrop == InitCrop /\ [][NextCrop]_vars

-----------------------------------------------------------------------------
(* Spec: runs of main *)

\* the files main may find: none, an undecodable one, or a single-row image
\* with at most one opaque pixel
MainFiles ==
  {Missing, Corrupt} \cup {f \in Images({MainW}, {1}) : Cardinality(f.px) <= 1}

Init ==
  /\ fs \in [Paths -> MainFiles]
  /\ pc = "start"
  /\ i = 0
  /\ out = <<>>
  /\ io = <<>>
  /\ call = NoCall
  /\ prov = [p \in Paths |-> -1]
  /\ runs = 0

\* the script is started: the header lines, then the loop's first file
MainStart ==
  /\ pc \in {"start", "done", "crashed"}
  /\ runs < MaxRuns
  /\ pc' = "loop"
  /\ i' = 1
  /\ out' = <<(<<"header">>), (<<"blank">>)>>
  /\ io' = <<>>
  /\ runs' = runs + 1
  /\ UNCHANGED <<fs, call, prov>>

\* a missing file ending the loop instead of being passed over
MainNotFoundBreaks ==
  /\ pc = "loop" /\ i <= NFiles
  /\ ~exists(fs[i])
  /\ io' = Append(io, <<"exists", i>>)
  /\ out' = Append(out, <<"notfound", i>>)
  /\ i' = NFiles + 1
  /\ UNCHANGED <<fs, pc, call, prov, runs>>

\* os.path.exists(filepath) is false
MainNotFound ==
  /\ pc = "loop" /\ i <= NFiles
  /\ ~exists(fs[i])
  /\ io' = Append(io, <<"exists", i>>)
  /\ out' = Append(out, <<"notfound", i>>)
  /\ i' = i + 1
  /\ UNCHANGED <<fs, pc, call, prov, runs>>

MainCropSkip ==
  /\ pc = "loop" /\ i <= NFiles
  /\ exists(fs[i])
  /\ CropSkip(i, NoPath, MainPadding, Append(io, <<"exists", i>>))
  /\ i' = i + 1
  /\ UNCHANGED <<pc, runs>>

MainCropSave ==
  /\ pc = "loop" /\ i <= NFiles
  /\ exists(fs[i])
  /\ CropSave(i, NoPath, MainPadding, Append(io, <<"exists", i>>))
  /\ i' = i + 1
  /\ UNCHANGED <<pc, runs>>

\* the decode error caught in the loop, which goes on to the next file
MainDecodeFailSwallowed ==
  /\ pc = "loop" /\ i <= NFiles
  /\ exists(fs[i])
  /\ CropDecodeFail(i, NoPath, MainPadding, Append(io, <<"exists", i>>))
  /\ i' = i + 1
  /\ UNCHANGED <<pc, runs>>

\* the exception leaves main: the run ends there
MainDecodeFail ==
  /\ pc = "loop" /\ i <= NFiles
  /\ exists(fs[i])
  /\ CropDecodeFail(i, NoPath, MainPadding, Append(io, <<"exists", i>>))
  /\ pc' = "crashed"
  /\ UNCHANGED <<i, runs>>

MainEncodeFail ==
  /\ pc = "loop" /\ i <= NFiles
  /\ exists(fs[i])
  /\ \E partial \in BOOLEAN :
       CropEncodeFail(i, NoPath, MainPadding, Append(io, <<"exists", i>>), partial)
  /\ pc' = "crashed"
  /\ UNCHANGED <<i, runs>>

\* the loop is over: the closing lines
MainDone ==
  /\ pc = "loop" /\ i > NFiles
  /\ out' = out \o <<(<<"blank">>), (<<"done">>)>>
  /\ pc' = "done"
  /\ UNCHANGED <<fs, i, io, call, prov, runs>>

LoopStep ==
  MainNotFound \/ MainCropSkip \/ MainCropSave \/ MainDecodeFail \/ MainEncodeFail

Next == MainStart \/ LoopStep \/ MainDone

Spec == Init /\ [][Next]_vars

\* the files of the runs checked for termination: none, an undecodable one,
\* a fully transparent image, an image with one opaque pixel at the left edge
LiveFiles ==
  {Missing, Corrupt, Img(MainW, 1, {}), Img(MainW, 1, {<<0, 0>>})}

InitLive ==
  /\ fs \in [Paths -> LiveFiles]
  /\ pc = "start"
  /\ i = 0
  /\ out = <<>>
  /\ io = <<>>
  /\ call = NoCall
  /\ prov = [p \in Paths |-> -1]
  /\ runs = 0

\* a started run is a sequential program: it takes its next step
FairSpec == InitLive /\ [][Next]_vars /\ WF_vars(LoopStep \/ MainDone)

-----------------------------------------------------------------------------
(* Helpers of the properties *)

Last(s) == s[Len(s)]

Range(s) == {s[k] : k \in 1..Len(s)}

\* the step is a call of crop_transparent
Called == call'.n = call.n + 1

\* the file operations of the step
NewIo == SubSeq(io', Len(io) + 1, Len(io'))

IsImage(f) == f.kind = "image"

-----------------------------------------------------------------------------
(* Properties of the rectangle computation, under SpecRect *)

\* C1: for every well-formed size, bounding box and padding, the computed
\* rectangle lies inside the image, is well ordered and contains the
\* bounding box.
C1_RectInsideAndContainsBox ==
  call.n = 1 =>
    LET r == call.rect
        b == call.bbox
    IN /\ 0 <= r[1] /\ r[1] <= r[3] /\ r[3] <= call.w
       /\ 0 <= r[2] /\ r[2] <= r[4] /\ r[4] <= call.h
       /\ r[1] <= b[1] /\ r[2] <= b[2] /\ r[3] >= b[3] /\ r[4] >= b[4]

\* a computed rectangle clamped on the left and padded in full on the right
C1_Witness ==
  /\ call.n = 1
  /\ call.pad > 0
  /\ call.bbox[1] - call.pad < 0
  /\ call.rect[1] = 0
  /\ call.rect[3] = call.bbox[3] + call.pad
  /\ call.rect[3] < call.w

\* m is the larger of a and b
IsLarger(m, a, b) == m >= a /\ m >= b /\ (m = a \/ m = b)

\* m is the smaller of a and b
IsSmaller(m, a, b) == m <= a /\ m <= b /\ (m = a \/ m = b)

\* C2: the computed rectangle is the reference rectangle (the larger of 0 and
\* bx0-P, the larger of 0 and by0-P, the smaller of W and bx1+P, the smaller
\* of H and by1+P); for W=100, H=50, bbox=(10,10,90,40), P=2 it is
\* (8,8,92,42).
C2_RectIsReference ==
  call.n = 1 =>
    LET r == call.rect
        b == call.bbox
    IN /\ IsLarger(r[1], 0, b[1] - call.pad)
       /\ IsLarger(r[2], 0, b[2] - call.pad)
       /\ IsSmaller(r[3], call.w, b[3] + call.pad)
       /\ IsSmaller(r[4], call.h, b[4] + call.pad)
       /\ (call.w = 100 /\ call.h = 50 /\ b = <<10, 10, 90, 40>> /\ call.pad = 2
             => r = <<8, 8, 92, 42>>)

\* the scenario of C2, computed
C2_Witness ==
  /\ call.n = 1
  /\ call.w = 100 /\ call.h = 50
  /\ call.bbox = <<10, 10, 90, 40>>
  /\ call.pad = 2
  /\ call.rect = <<8, 8, 92, 42>>

\* C6: with padding 0 the computed rectangle is the bounding box.
C6_ZeroPaddingKeepsBox ==
  (call.n = 1 /\ call.pad = 0) => call.rect = call.bbox

\* padding 0 on a bounding box strictly inside the image
C6_Witness ==
  /\ call.n = 1
  /\ call.pad = 0
  /\ 0 < call.bbox[1] /\ call.bbox[1] < call.bbox[3] /\ call.bbox[3] < call.w
  /\ 0 < call.bbox[2] /\ call.bbox[2] < call.bbox[4] /\ call.bbox[4] < call.h
  /\ call.rect = call.bbox

\* C7: the padding in effect on a side is the smaller of P and the margin on
\* that side; a bounding box at the left edge with P>0 gives left=0; W=100,
\* H=50, bbox=(0,0,100,50), P=2 gives (0,0,100,50).
C7_PaddingClampedToMargin ==
  call.n = 1 =>
    LET r == call.rect
        b == call.bbox
        P == call.pad
        eff(margin) == IF P <= margin THEN P ELSE margin
    IN /\ r[1] = b[1] - eff(b[1])
       /\ r[2] = b[2] - eff(b[2])
       /\ r[3] = b[3] + eff(call.w - b[3])
       /\ r[4] = b[4] + eff(call.h - b[4])
       /\ (b[1] = 0 /\ P > 0 => r[1] = 0)
       /\ (call.w = 100 /\ call.h = 50 /\ b = <<0, 0, 100, 50>> /\ P = 2
             => r = <<0, 0, 100, 50>>)

\* the all-edges scenario of C7, computed
C7_Witness ==
  /\ call.n = 1
  /\ call.w = 100 /\ call.h = 50
  /\ call.bbox = <<0, 0, 100, 50>>
  /\ call.pad = 2
  /\ call.rect = <<0, 0, 100, 50>>

-----------------------------------------------------------------------------
(* Properties of crop_transparent, under SpecCrop *)

\* C3: a call on an image with no non-transparent pixel crops nothing and
\* writes nothing: every file, the one at the output path included, is left
\* as it was, the "fully transparent, skipping" line is printed, and the
\* call returns without an error.
C3_TransparentSkips ==
  [][(Called /\ decodes(fs[call'.inp]) /\ getbbox(fs[call'.inp]) = NoBox)
       => /\ fs' = fs
          /\ out' = Append(out, <<"transparent", call'.inp>>)
          /\ NewIo = <<(<<"open", call'.inp>>)>>
          /\ call'.rect = NoRect
          /\ pc' = pc]_vars

\* a transparent image was skipped while a file stood at the output path
C3_Witness ==
  /\ pc = "caller"
  /\ call.n = 1
  /\ call.inp = 1 /\ call.outp = 2
  /\ exists(fs[2])
  /\ IsImage(fs[1]) /\ fs[1].px = {}
  /\ out = <<(<<"transparent", 1>>)>>

\* C5: a crop with padding P of a file that is itself the output of a crop
\* with padding P computes the whole image as its rectangle, and the file it
\* writes is that image again.
C5_SecondCropIsNoOp ==
  [][(Called /\ prov[call'.inp] = call'.pad)
       => /\ call'.rect = <<0, 0, fs[call'.inp].w, fs[call'.inp].h>>
          /\ (pc' # "crashed" => fs'[call'.outp] = fs[call'.inp])]_vars

\* file 1 was cropped in place to a smaller image, then cropped again with
\* the same padding
C5_Witness ==
  /\ pc = "caller"
  /\ call.n = 2
  /\ call.inp = 1 /\ call.outp = 1
  /\ Len(out) = 2
  /\ out[1][1] = "cropped" /\ out[1][2] = 1
  /\ out[1][5] < out[1][3] /\ out[1][6] < out[1][4]
  /\ out[2] = <<"cropped", 1, out[1][5], out[1][6], out[1][5], out[1][6]>>
  /\ prov[1] = call.pad
  /\ call.pad > 0

\* C10: a crop never enlarges an image.  The file a call writes has width
\* right-left and height bottom-top, no smaller than the bounding box and no
\* larger than the image or the box plus 2P; so under calls that write where
\* they read, as main's do, no file's width or height ever grows.
C10_CropNeverEnlarges ==
  [][(Called /\ call'.rect # NoRect /\ pc' # "crashed")
       => LET r == call'.rect
              b == call'.bbox
              P == call'.pad
              bw == b[3] - b[1]
              bh == b[4] - b[2]
              new == fs'[call'.outp]
          IN /\ IsImage(new)
             /\ new.w = r[3] - r[1] /\ new.h = r[4] - r[2]
             /\ bw <= new.w /\ new.w <= call'.w /\ new.w <= bw + 2 * P
             /\ bh <= new.h /\ new.h <= call'.h /\ new.h <= bh + 2 * P
             /\ (call'.outp = call'.inp =>
                   \A p \in Paths :
                     IsImage(fs[p]) =>
                       /\ IsImage(fs'[p])
                       /\ fs'[p].w <= fs[p].w /\ fs'[p].h <= fs[p].h)]_vars

\* an in-place crop made the file narrower and lower, and kept some padding
C10_Witness ==
  /\ pc = "caller"
  /\ call.rect # NoRect
  /\ call.outp = call.inp
  /\ IsImage(fs[call.outp])
  /\ fs[call.outp].w < call.w /\ fs[call.outp].h < call.h
  /\ fs[call.outp].w > call.bbox[3] - call.bbox[1]

-----------------------------------------------------------------------------
(* Properties of main, under Spec and FairSpec *)

\* the paths main has tested with os.path.exists in this run, in order
Tested == SelectSeq(io, LAMBDA e : e[1] = "exists")

\* the step of the loop finds the current file missing
AtMissing == pc = "loop" /\ i <= NFiles /\ ~exists(fs[i])

\* the step of the loop finds the current file a fully transparent image
AtTransparent ==
  pc = "loop" /\ i <= NFiles /\ IsImage(fs[i]) /\ getbbox(fs[i]) = NoBox

\* C4: a missing file is reported and crop_transparent is not called for it;
\* a fully transparent file is reported; in both cases the loop goes on to
\* the next file, so a run that ends with "Done" has tested every file.
C4_SkipsDoNotAbort ==
  /\ [][/\ AtMissing =>
             /\ out' = Append(out, <<"notfound", i>>)
             /\ call' = call
             /\ NewIo = <<(<<"exists", i>>)>>
             /\ fs' = fs
             /\ pc' = "loop" /\ i' = i + 1
        /\ AtTransparent =>
             /\ out' = Append(out, <<"transparent", i>>)
             /\ fs' = fs
             /\ pc' = "loop" /\ i' = i + 1]_vars
  /\ [](pc = "done" => \A p \in Paths : <<"exists", p>> \in Range(io))

\* a run that found file 1 missing and file 2 fully transparent went on to
\* crop file 3 and ended with "Done"
C4_Witness ==
  /\ pc = "done"
  /\ runs = 1
  /\ out[3] = <<"notfound", 1>>
  /\ out[4] = <<"transparent", 2>>
  /\ out[5][1] = "cropped" /\ out[5][2] = 3
  /\ Last(out) = <<"done">>

\* the step is a call whose decode fails
DecodeFails == Called /\ ~decodes(fs[call'.inp])

\* the step is a call whose save fails: a save was tried, no size line came
SaveFails ==
  /\ Called
  /\ Len(NewIo) > 0 /\ Last(NewIo)[1] = "save"
  /\ out' = out

\* C8: a failure of the decode or of the save while file i is processed ends
\* the run: the other files are left as they were, no file after i has been
\* touched, "Done" is not printed, and nothing more happens in that run.
C8_FailureEndsRun ==
  /\ [][/\ (DecodeFails \/ SaveFails) =>
             /\ pc' = "crashed"
             /\ i' = i
             /\ \A p \in Paths \ {i} : fs'[p] = fs[p]
        /\ pc = "crashed" => (runs' = runs + 1 /\ fs' = fs)]_vars
  /\ [](pc = "crashed" =>
          /\ <<"done">> \notin Range(out)
          /\ \A e \in Range(io) : e[2] <= i
          /\ Last(io)[2] = i)

\* a run that cropped file 1 and then failed on file 2, leaving 3 and 4
C8_Witness ==
  /\ pc = "crashed"
  /\ runs = 1
  /\ i = 2
  /\ Len(out) = 3 /\ out[3][1] = "cropped" /\ out[3][2] = 1
  /\ exists(fs[3]) /\ exists(fs[4])

\* C9: main takes the files one at a time in list order, each once; a step
\* of the loop touches only the current file's own path and leaves the other
\* files as they were; and a started run comes to its end, which is "Done"
\* unless a collaborator failed.
C9_SequentialAndFramed ==
  /\ [](/\ Tested = [k \in 1..Len(Tested) |-> <<"exists", k>>]
        /\ (pc = "loop" => Len(Tested) = i - 1)
        /\ (pc = "crashed" => Len(Tested) = i)
        /\ (pc = "done" => Len(Tested) = NFiles /\ Last(out) = <<"done">>))
  /\ [][/\ \A p \in Paths : fs'[p] # fs[p] => (pc = "loop" /\ p = i)
        /\ \A e \in Range(NewIo) : e[2] = i
        /\ (pc = "loop" /\ pc' = "loop") => i' = i + 1]_vars
  /\ (pc = "loop" ~> pc \in {"done", "crashed"})
  /\ [](pc = "crashed" => Last(io)[1] \in {"open", "save"})

\* a run that cropped two files and ended with "Done"
C9_Witness ==
  /\ pc = "done"
  /\ runs = 1
  /\ Len(SelectSeq(out, LAMBDA m : m[1] = "cropped")) >= 2
  /\ \E p \in Paths : IsImage(fs[p]) /\ fs[p].w < MainW

====
